---- MODULE Spec2Model ----
(***************************************************************************)
(* Dynamic custom field tabs (assets/js/theme/product/                     *)
(* dynamic-custom-field-tabs.js): the partition of a product's custom      *)
(* fields into leading fields and tabs, the insertion of the rendered      *)
(* nodes before three anchors of the product page, and the delegated click *)
(* handler of the inserted tab labels.                                     *)
(*                                                                         *)
(* A JavaScript string is a sequence of one-character strings.  A          *)
(* JavaScript value is a record [t, s]: t is its type ("str", "num",       *)
(* "null", "undef") and s the characters of a string, or the decimal       *)
(* digits of a number.                                                     *)
(***************************************************************************)
EXTENDS Integers, Sequences, FiniteSets, TLC

VARIABLES
    pc,               \* position of the running call
    caller,           \* who called groupCustomFieldsIntoTabs: "direct" or "init"
    calls,            \* calls of initDynamicCustomFieldTabs made so far
    context,          \* the Stencil JS context of the page
    customFields,     \* argument of groupCustomFieldsIntoTabs
    idx,              \* forEach: number of entries already processed
    result,           \* groupCustomFieldsIntoTabs: result
    tabs,             \* groupCustomFieldsIntoTabs: tabs
    currentTab,       \* groupCustomFieldsIntoTabs: position in tabs of currentTab, 0 for null
    seenFirstTrigger, \* groupCustomFieldsIntoTabs: seenFirstTrigger
    infoDl,           \* children of the product info <dl>
    tabsUl,           \* children of <ul class="tabs">
    tabsContents,     \* children of <div class="tabs-contents">
    listeners,        \* delegated click listeners registered on document
    event             \* the last click dispatched and what the handlers did with it

groupVars == <<customFields, idx, result, tabs, currentTab, seenFirstTrigger>>
docVars == <<infoDl, tabsUl, tabsContents, listeners, event>>
vars == <<pc, caller, calls, context, customFields, idx, result, tabs, currentTab,
          seenFirstTrigger, infoDl, tabsUl, tabsContents, listeners, event>>

----------------------------------------------------------------------------
(* Bounds of the model. *)

\* longest attribute list given directly to groupCustomFieldsIntoTabs
MaxLen == 3
\* longest attribute list rendered from the lists of GroupEntries
MaxRenderLen == 2
\* longest attribute list of a page context
MaxPageLen == 2
\* calls of initDynamicCustomFieldTabs on one page
MaxCalls == 2

----------------------------------------------------------------------------
(* JavaScript strings and values. *)

Str(s) == [t |-> "str", s |-> s]
Num(digits) == [t |-> "num", s |-> digits]
Null == [t |-> "null", s |-> <<>>]
Undefined == [t |-> "undef", s |-> <<>>]

\* ToBoolean of a value
Truthy(v) ==
    CASE v.t = "str" -> v.s # <<>>
      [] v.t = "num" -> v.s # <<"0">>
      [] OTHER -> FALSE

\* String(v)
ToStr(v) ==
    CASE v.t = "null" -> <<"n", "u", "l", "l">>
      [] v.t = "undef" -> <<"u", "n", "d", "e", "f", "i", "n", "e", "d">>
      [] OTHER -> v.s

WhiteSpace == {" ", "\t"}

RECURSIVE TrimStart(_)
TrimStart(s) ==
    IF s # <<>> /\ Head(s) \in WhiteSpace THEN TrimStart(Tail(s)) ELSE s

RECURSIVE TrimEnd(_)
TrimEnd(s) ==
    IF s # <<>> /\ s[Len(s)] \in WhiteSpace
    THEN TrimEnd(SubSeq(s, 1, Len(s) - 1))
    ELSE s

\* String.prototype.trim
Trim(s) == TrimEnd(TrimStart(s))

UpperCase == <<"A", "B", "C", "D", "E", "F", "G", "H", "I", "J", "K", "L", "M",
               "N", "O", "P", "Q", "R", "S", "T", "U", "V", "W", "X", "Y", "Z">>
LowerCase == <<"a", "b", "c", "d", "e", "f", "g", "h", "i", "j", "k", "l", "m",
               "n", "o", "p", "q", "r", "s", "t", "u", "v", "w", "x", "y", "z">>
Digits == <<"0", "1", "2", "3", "4", "5", "6", "7", "8", "9">>

LowerChar(c) ==
    IF \E k \in 1..Len(UpperCase) : UpperCase[k] = c
    THEN LowerCase[CHOOSE k \in 1..Len(UpperCase) : UpperCase[k] = c]
    ELSE c

\* String.prototype.toLowerCase
ToLowerCase(s) == [k \in 1..Len(s) |-> LowerChar(s[k])]

\* Decimal digits of a natural number, as template literals print it
RECURSIVE Dec(_)
Dec(n) == IF n < 10 THEN <<Digits[n + 1]>> ELSE Dec(n \div 10) \o <<Digits[(n % 10) + 1]>>

\* .replace(/\s+/g, '-'): every run of whitespace becomes one hyphen
RECURSIVE ReplaceWhiteSpaceRuns(_)
ReplaceWhiteSpaceRuns(s) ==
    IF s = <<>> THEN <<>>
    ELSE IF Head(s) \in WhiteSpace
         THEN <<"-">> \o ReplaceWhiteSpaceRuns(TrimStart(s))
         ELSE <<Head(s)>> \o ReplaceWhiteSpaceRuns(Tail(s))

SlugChars == {LowerCase[k] : k \in 1..Len(LowerCase)}
                 \cup {Digits[k] : k \in 1..Len(Digits)} \cup {"-"}

\* .replace(/[^a-z0-9-]/g, '')
StripNonSlugChars(s) == SelectSeq(s, LAMBDA c : c \in SlugChars)

NEWTAB_TRIGGER_NAME == <<"_", "_", "n", "e", "w", "t", "a", "b">>
DefaultLabel == <<"D", "e", "t", "a", "i", "l", "s">>
TabCustomPrefix == <<"t", "a", "b", "-", "c", "u", "s", "t", "o", "m", "-">>
TabDynamicPrefix == <<"t", "a", "b", "-", "d", "y", "n", "a", "m", "i", "c", "-">>

\* isNewTabTrigger without the toLowerCase
isNewTabTrigger_caseSensitive(name) ==
    Truthy(name) /\ Trim(ToStr(name)) = NEWTAB_TRIGGER_NAME

\* isNewTabTrigger as name === NEWTAB_TRIGGER_NAME
isNewTabTrigger_exact(name) == name.t = "str" /\ name.s = NEWTAB_TRIGGER_NAME

\* isNewTabTrigger(name): name && String(name).trim().toLowerCase() === '__newtab'
isNewTabTrigger(name) ==
    Truthy(name) /\ ToLowerCase(Trim(ToStr(name))) = NEWTAB_TRIGGER_NAME

\* slugify(label, index)
slugify(label, index) ==
    IF label.t # "str" THEN TabCustomPrefix \o Dec(index)
    ELSE LET slug == StripNonSlugChars(ReplaceWhiteSpaceRuns(Trim(ToLowerCase(label.s))))
         IN IF slug # <<>> THEN slug ELSE TabCustomPrefix \o Dec(index)

----------------------------------------------------------------------------
(* Attribute lists. *)

\* an entry {name, value} of the attribute list
Entry(name, value) == [obj |-> TRUE, name |-> name, value |-> value]
\* an entry that is null: reading its name throws a TypeError
NullEntry == [obj |-> FALSE, name |-> Undefined, value |-> Undefined]

ArrayOf(items) == [kind |-> "array", items |-> items]
\* a truthy value that is not an array
NonArray == [kind |-> "nonarray", items |-> <<>>]
\* an absent (undefined) list
Absent == [kind |-> "undef", items |-> <<>>]

TriggerEntries ==
    { Entry(Str(<<"_", "_", "N", "e", "w", "T", "a", "b">>), Str(<<" ">>)),
      Entry(Str(<<" ", "_", "_", "N", "E", "W", "T", "A", "B", "\t">>), Str(<<"I", "n", "f", "o">>)),
      Entry(Str(NEWTAB_TRIGGER_NAME), Str(<<" ", "i", "n", "f", "o", " ">>)),
      Entry(Str(NEWTAB_TRIGGER_NAME), Str(<<"A", " ", "\t", "1">>)),
      Entry(Str(NEWTAB_TRIGGER_NAME), Str(<<"a">>)),
      Entry(Str(NEWTAB_TRIGGER_NAME), Str(<<"!", "?">>)),
      Entry(Str(NEWTAB_TRIGGER_NAME), Str(<<"T", "a", "b", " ", "C", "u", "s", "t", "o", "m", " ", "0">>)),
      Entry(Str(NEWTAB_TRIGGER_NAME), Null),
      Entry(Str(NEWTAB_TRIGGER_NAME), Undefined),
      Entry(Str(NEWTAB_TRIGGER_NAME), Num(<<"0">>)) }

FieldEntries ==
    { Entry(Str(<<" ", "W", "e", "i", "g", "h", "t", " ">>), Str(<<"2", "k", "g">>)),
      Entry(Str(<<"N", "o", "t", "e">>), Null),
      Entry(Str(<<"_", "n", "e", "w", "t", "a", "b">>), Str(<<"S", "p", "e", "c", "s">>)) }

\* entries without a usable name
NamelessEntries ==
    { Entry(Str(<<" ", "\t">>), Str(<<"x">>)),
      Entry(Null, Str(<<"x">>)) }

GroupEntries == TriggerEntries \cup FieldEntries \cup NamelessEntries \cup {NullEntry}

\* the five-entry list of the documentation's example
ExampleInput ==
    << Entry(Str(<<"C", "o", "l", "o", "r">>), Str(<<"R", "e", "d">>)),
       Entry(Str(NEWTAB_TRIGGER_NAME), Str(<<"S", "p", "e", "c", "s">>)),
       Entry(Str(<<"W", "e", "i", "g", "h", "t">>), Str(<<"2", "k", "g">>)),
       Entry(Str(<<"_", "_", "N", "e", "w", "T", "a", "b">>), Str(<<" ">>)),
       Entry(Str(<<"N", "o", "t", "e">>), Str(<<"<", "b", ">", "h", "i", "<", "/", "b", ">">>)) >>

SeqsUpTo(S, n) == UNION {[1..k -> S] : k \in 0..n}

GroupInputs ==
    {ArrayOf(items) : items \in SeqsUpTo(GroupEntries, MaxLen) \cup {ExampleInput}}
        \cup {NonArray, Absent}

RenderInputs ==
    {ArrayOf(items) : items \in SeqsUpTo(GroupEntries, MaxRenderLen) \cup {ExampleInput}}
        \cup {NonArray}

----------------------------------------------------------------------------
(* groupCustomFieldsIntoTabs *)

EmptyResult == [leadingFields |-> <<>>, tabs |-> <<>>]

\* const name = field.name && String(field.name).trim();
fieldName(field) ==
    IF Truthy(field.name) THEN Str(Trim(ToStr(field.name))) ELSE field.name

\* const value = field.value != null ? field.value : '';
fieldValue(field) ==
    IF field.value.t \in {"null", "undef"} THEN Str(<<>>) ELSE field.value

\* const label = typeof value === 'string' ? value.trim() : String(value);
tabLabel(value) ==
    IF value.t = "str" THEN Str(Trim(value.s)) ELSE Str(ToStr(value))

\* newTab with label: label, without the fallback
newTab_noDefault(label, length) ==
    [label |-> label.s, slug |-> slugify(label, length), fields |-> <<>>]

\* currentTab = { label: label || 'Details', slug: slugify(label, tabs.length), fields: [] }
newTab(label, length) ==
    [label |-> IF Truthy(label) THEN label.s ELSE DefaultLabel,
     slug |-> slugify(label, length),
     fields |-> <<>>]

\* pushTabField on tabs[0] in place of currentTab
pushTabField_firstTab(ts, cur, f) == [ts EXCEPT ![1].fields = Append(@, f)]

\* pushTabField as currentTab.fields = [{ name, value }]
pushTabField_overwrite(ts, cur, f) == [ts EXCEPT ![cur].fields = <<f>>]

\* currentTab.fields.push({ name, value })
pushTabField(ts, cur, f) == [ts EXCEPT ![cur].fields = Append(@, f)]

\* pushLeadingField with unshift in place of push
pushLeadingField_unshift(res, f) == [res EXCEPT !.leadingFields = <<f>> \o @]

\* result.leadingFields.push({ name, value })
pushLeadingField(res, f) == [res EXCEPT !.leadingFields = Append(@, f)]

\* entry of groupCustomFieldsIntoTabs up to the forEach
groupEnter ==
    /\ pc = "group"
    /\ result' = EmptyResult
    /\ tabs' = <<>>
    /\ currentTab' = 0
    /\ seenFirstTrigger' = FALSE
    /\ idx' = 0
    /\ IF customFields.kind # "array" \/ Len(customFields.items) = 0
       THEN pc' = IF caller = "init" THEN "injectLeading" ELSE "returned"
       ELSE pc' = "forEach"
    /\ UNCHANGED <<caller, calls, context, customFields, docVars>>

\* one call of the forEach callback
forEachStep ==
    /\ pc = "forEach"
    /\ idx < Len(customFields.items)
    /\ LET field == customFields.items[idx + 1] IN
       IF ~field.obj
       THEN /\ pc' = "threw"
            /\ UNCHANGED <<idx, result, tabs, currentTab, seenFirstTrigger>>
       ELSE LET name == fieldName(field)
                value == fieldValue(field)
            IN /\ pc' = pc
               /\ idx' = idx + 1
               /\ IF isNewTabTrigger(name)
                  THEN /\ seenFirstTrigger' = TRUE
                       /\ tabs' = Append(tabs, newTab(tabLabel(value), Len(tabs)))
                       /\ currentTab' = Len(tabs) + 1
                       /\ UNCHANGED result
                  ELSE IF Truthy(name)
                  THEN IF seenFirstTrigger /\ currentTab # 0
                       THEN /\ tabs' = pushTabField(tabs, currentTab,
                                                    [name |-> name.s, value |-> value])
                            /\ UNCHANGED <<result, currentTab, seenFirstTrigger>>
                       ELSE /\ result' = pushLeadingField(result,
                                                    [name |-> name.s, value |-> value])
                            /\ UNCHANGED <<tabs, currentTab, seenFirstTrigger>>
                  ELSE UNCHANGED <<result, tabs, currentTab, seenFirstTrigger>>
    /\ UNCHANGED <<caller, calls, context, customFields, docVars>>

\* result.tabs = tabs; return result;
groupReturn ==
    /\ pc = "forEach"
    /\ idx = Len(customFields.items)
    /\ result' = [result EXCEPT !.tabs = tabs]
    /\ pc' = IF caller = "init" THEN "injectLeading" ELSE "returned"
    /\ UNCHANGED <<caller, calls, context, customFields, idx, tabs, currentTab,
                   seenFirstTrigger, docVars>>

----------------------------------------------------------------------------
(* The product page: the three containers that hold the anchors.  A node's *)
(* field ins is bookkeeping: the call of initDynamicCustomFieldTabs that   *)
(* inserted it, 0 for a node of the template.                              *)

Anchor == [kind |-> "anchor"]
Dt(text, n) == [kind |-> "dt", text |-> text, ins |-> n]
Dd(html, n) == [kind |-> "dd", html |-> html, ins |-> n]
Tab(href, html, active, n) ==
    [kind |-> "tab", href |-> href, html |-> html, active |-> active, ins |-> n]
Content(id, dl, active, n) ==
    [kind |-> "content", id |-> id, dl |-> dl, active |-> active, ins |-> n]

DescriptionId == <<"t", "a", "b", "-", "d", "e", "s", "c">>
ReviewsId == <<"t", "a", "b", "-", "r", "e", "v", "i", "e", "w", "s">>
\* a label of the template that matches the dynamic pattern and has no panel
OrphanId == TabDynamicPrefix \o <<"o", "l", "d", "-", "9">>

\* <dl class="productView-info"> of product-view-custom-fields.html
HostInfoDl(hasAnchor) ==
    <<Dt(<<"S", "K", "U", ":">>, 0), Dd(<<"X", "1">>, 0)>>
        \o (IF hasAnchor THEN <<Anchor>> ELSE <<>>)

\* <ul class="tabs"> of description-tabs-with-dynamic-fields.html
HostTabsUl(hasAnchor, hasOrphan) ==
    <<Tab(<<"#">> \o DescriptionId, <<"D">>, TRUE, 0)>>
        \o (IF hasOrphan THEN <<Tab(<<"#">> \o OrphanId, <<"O">>, FALSE, 0)>> ELSE <<>>)
        \o (IF hasAnchor THEN <<Anchor>> ELSE <<>>)
        \o <<Tab(<<"#">> \o ReviewsId, <<"R">>, FALSE, 0)>>

\* <div class="tabs-contents"> of description-tabs-with-dynamic-fields.html
HostTabsContents(hasAnchor) ==
    <<Content(DescriptionId, <<>>, TRUE, 0)>>
        \o (IF hasAnchor THEN <<Anchor>> ELSE <<>>)
        \o <<Content(ReviewsId, <<>>, FALSE, 0)>>

\* document.getElementById / $('#...') of an anchor: its position, 0 when missing
anchorOf(children) ==
    IF \E k \in 1..Len(children) : children[k].kind = "anchor"
    THEN CHOOSE k \in 1..Len(children) : children[k].kind = "anchor"
    ELSE 0

\* insertBefore as parent.appendChild(frag)
insertBefore_append(children, frag, at) == children \o frag

\* parent.insertBefore(frag, anchor) / $anchor.before(frag)
insertBefore(children, frag, at) ==
    SubSeq(children, 1, at - 1) \o frag \o SubSeq(children, at, Len(children))

\* escapeHtml: textContent to innerHTML
RECURSIVE escapeHtml(_)
escapeHtml(s) ==
    IF s = <<>> THEN <<>>
    ELSE (CASE Head(s) = "<" -> <<"&", "l", "t", ";">>
            [] Head(s) = ">" -> <<"&", "g", "t", ";">>
            [] Head(s) = "&" -> <<"&", "a", "m", "p", ";">>
            [] OTHER -> <<Head(s)>>) \o escapeHtml(Tail(s))

\* dt.textContent = `${field.name}:`; dd.innerHTML = field.value;
RECURSIVE fieldPairs(_, _)
fieldPairs(fields, n) ==
    IF fields = <<>> THEN <<>>
    ELSE <<Dt(Head(fields).name \o <<":">>, n), Dd(ToStr(Head(fields).value), n)>>
             \o fieldPairs(Tail(fields), n)

\* renderedId without the index
renderedId_noIndex(slug, i) == TabDynamicPrefix \o slug

\* const id = `tab-dynamic-${tab.slug}-${i}`;
renderedId(slug, i) == TabDynamicPrefix \o slug \o <<"-">> \o Dec(i)

\* the <li class="tab"> of each tab, in tab order
tabListFrag(ts, n) ==
    [k \in 1..Len(ts) |->
        Tab(<<"#">> \o renderedId(ts[k].slug, k - 1), escapeHtml(ts[k].label), FALSE, n)]

\* contentFrag with the one-based position in the id
contentFrag_oneBased(ts, n) ==
    [k \in 1..Len(ts) |->
        Content(renderedId(ts[k].slug, k), fieldPairs(ts[k].fields, n), FALSE, n)]

\* the <div class="tab-content"> of each tab, in tab order
contentFrag(ts, n) ==
    [k \in 1..Len(ts) |->
        Content(renderedId(ts[k].slug, k - 1), fieldPairs(ts[k].fields, n), FALSE, n)]

----------------------------------------------------------------------------
(* initDynamicCustomFieldTabs and the functions it calls *)

Context(present, flag, fields) == [present |-> present, flag |-> flag, fields |-> fields]

\* initGuard without the test of the activation flag
initGuard_noFlag(ctx) == ~ctx.present \/ ctx.fields.kind = "undef"

\* !context || !context.productUseDynamicCustomFieldTabs || !context.productCustomFields
initGuard(ctx) == ~ctx.present \/ ~ctx.flag \/ ctx.fields.kind = "undef"

initDynamicCustomFieldTabs ==
    /\ pc = "idle"
    /\ calls < MaxCalls
    /\ calls' = calls + 1
    /\ IF initGuard(context)
       THEN UNCHANGED <<pc, caller, customFields>>
       ELSE /\ pc' = "group"
            /\ caller' = "init"
            /\ customFields' = context.fields
    /\ UNCHANGED <<context, idx, result, tabs, currentTab, seenFirstTrigger, docVars>>

injectLeadingCustomFields ==
    /\ pc = "injectLeading"
    /\ LET at == anchorOf(infoDl) IN
       IF Len(result.leadingFields) = 0 \/ at = 0
       THEN UNCHANGED infoDl
       ELSE infoDl' = insertBefore(infoDl, fieldPairs(result.leadingFields, calls), at)
    /\ pc' = IF Len(result.tabs) > 0 THEN "injectTabs" ELSE "idle"
    /\ UNCHANGED <<caller, calls, context, groupVars, tabsUl, tabsContents, listeners, event>>

\* injectDynamicTabs that inserts beside each anchor that exists
injectDynamicTabs_eachAnchor ==
    /\ pc = "injectTabs"
    /\ LET listAnchor == anchorOf(tabsUl)
           contentAnchor == anchorOf(tabsContents)
       IN /\ tabsUl' = IF listAnchor = 0 THEN tabsUl
                       ELSE insertBefore(tabsUl, tabListFrag(result.tabs, calls), listAnchor)
          /\ tabsContents' = IF contentAnchor = 0 THEN tabsContents
                             ELSE insertBefore(tabsContents, contentFrag(result.tabs, calls),
                                               contentAnchor)
    /\ pc' = "bind"
    /\ UNCHANGED <<caller, calls, context, groupVars, infoDl, listeners, event>>

injectDynamicTabs ==
    /\ pc = "injectTabs"
    /\ LET listAnchor == anchorOf(tabsUl)
           contentAnchor == anchorOf(tabsContents)
       IN IF Len(result.tabs) = 0 \/ listAnchor = 0 \/ contentAnchor = 0
          THEN UNCHANGED <<tabsUl, tabsContents>>
          ELSE /\ tabsUl' = insertBefore(tabsUl, tabListFrag(result.tabs, calls), listAnchor)
               /\ tabsContents' = insertBefore(tabsContents, contentFrag(result.tabs, calls),
                                               contentAnchor)
    /\ pc' = "bind"
    /\ UNCHANGED <<caller, calls, context, groupVars, infoDl, listeners, event>>

\* bindDynamicTabClicks that registers one listener per tab
bindDynamicTabClicks_perTab ==
    /\ pc = "bind"
    /\ listeners' = listeners + Len(result.tabs)
    /\ pc' = "idle"
    /\ UNCHANGED <<caller, calls, context, groupVars, infoDl, tabsUl, tabsContents, event>>

bindDynamicTabClicks ==
    /\ pc = "bind"
    /\ listeners' = listeners + 1
    /\ pc' = "idle"
    /\ UNCHANGED <<caller, calls, context, groupVars, infoDl, tabsUl, tabsContents, event>>

----------------------------------------------------------------------------
(* The delegated click handler of bindDynamicTabClicks *)

StartsWith(s, prefix) ==
    Len(s) >= Len(prefix) /\ SubSeq(s, 1, Len(prefix)) = prefix

\* '.productView-description .tabs a[href^="#tab-dynamic-"]'
matchesSelector(inTabs, href) == inTabs /\ StartsWith(href, <<"#">> \o TabDynamicPrefix)

\* $(href): the first element of the document with that id, 0 when there is none
panelOf(contents, href) ==
    LET hits == {p \in 1..Len(contents) :
                    contents[p].kind = "content" /\ <<"#">> \o contents[p].id = href}
    IN IF hits = {} THEN 0 ELSE CHOOSE p \in hits : \A q \in hits : p <= q

\* $tabs.find('.tab').removeClass('is-active'); $(this).closest('.tab').addClass('is-active');
activateTab(ul, k) ==
    [j \in 1..Len(ul) |->
        IF ul[j].kind = "tab" THEN [ul[j] EXCEPT !.active = (j = k)] ELSE ul[j]]

\* activatePanel without $contents.removeClass('is-active')
activatePanel_keepOthers(contents, p) == [contents EXCEPT ![p].active = TRUE]

\* $contents.removeClass('is-active'); $content.addClass('is-active');
activatePanel(contents, p) ==
    [q \in 1..Len(contents) |->
        IF contents[q].kind = "content"
        THEN [contents[q] EXCEPT !.active = (q = p)]
        ELSE contents[q]]

\* clickHandler without the return when the panel is not found
clickHandler_noPanelCheck(st, k) ==
    LET p == panelOf(st.contents, st.ul[k].href)
    IN [ul |-> activateTab(st.ul, k),
        contents |-> IF p = 0 THEN [q \in 1..Len(st.contents) |->
                                      IF st.contents[q].kind = "content"
                                      THEN [st.contents[q] EXCEPT !.active = FALSE]
                                      ELSE st.contents[q]]
                     ELSE activatePanel(st.contents, p),
        found |-> p # 0,
        prevented |-> TRUE]

\* the listener's callback, run on the link at position k of the tab list
clickHandler(st, k) ==
    LET href == st.ul[k].href
        p == panelOf(st.contents, href)
    IN IF href = <<>> \/ href = <<"#">> THEN st
       ELSE IF p = 0 THEN st
       ELSE [ul |-> activateTab(st.ul, k),
             contents |-> activatePanel(st.contents, p),
             found |-> TRUE,
             prevented |-> TRUE]

\* every registered listener runs the callback
RECURSIVE runListeners(_, _, _)
runListeners(n, st, k) ==
    IF n = 0 THEN st ELSE runListeners(n - 1, clickHandler(st, k), k)

NoEvent == [where |-> "none", k |-> 0, ran |-> 0, found |-> FALSE, prevented |-> FALSE]

\* a link outside the tab list whose href has the dynamic prefix
ElsewhereHref == <<"#">> \o TabDynamicPrefix \o <<"s", "p", "e", "c", "s", "-", "0">>

\* the user clicks the link of the k-th child of the tab list
clickTab(k) ==
    /\ pc = "idle"
    /\ k \in 1..Len(tabsUl)
    /\ tabsUl[k].kind = "tab"
    /\ LET n == IF matchesSelector(TRUE, tabsUl[k].href) THEN listeners ELSE 0
           st == runListeners(n, [ul |-> tabsUl, contents |-> tabsContents,
                                  found |-> FALSE, prevented |-> FALSE], k)
       IN /\ tabsUl' = st.ul
          /\ tabsContents' = st.contents
          /\ event' = [where |-> "tabs", k |-> k, ran |-> n,
                       found |-> st.found, prevented |-> st.prevented]
    /\ pc' = "clicked"
    /\ UNCHANGED <<caller, calls, context, groupVars, infoDl, listeners>>

\* the user clicks a link that is not in the tab list
clickElsewhere ==
    /\ pc = "idle"
    /\ LET n == IF matchesSelector(FALSE, ElsewhereHref) THEN listeners ELSE 0
       IN event' = [where |-> "elsewhere", k |-> 0, ran |-> n,
                    found |-> FALSE, prevented |-> FALSE]
    /\ pc' = "clicked"
    /\ UNCHANGED <<caller, calls, context, groupVars, infoDl, tabsUl, tabsContents, listeners>>

\* the dispatch of the click is over
clickDone ==
    /\ pc = "clicked"
    /\ pc' = "idle"
    /\ UNCHANGED <<caller, calls, context, groupVars, docVars>>

\* The host tab framework, which scanned the template's own tabs, activates
\* one of them and its panel; whether it deactivates the inserted ones is not
\* known here, so both outcomes are possible.
hostActivate(k, clearInserted) ==
    /\ pc = "idle"
    /\ k \in 1..Len(tabsUl)
    /\ tabsUl[k].kind = "tab"
    /\ tabsUl[k].ins = 0
    /\ panelOf(tabsContents, tabsUl[k].href) # 0
    /\ ~tabsUl[k].active
    /\ tabsUl' = [j \in 1..Len(tabsUl) |->
                    IF tabsUl[j].kind = "tab" /\ (tabsUl[j].ins = 0 \/ clearInserted)
                    THEN [tabsUl[j] EXCEPT !.active = (j = k)]
                    ELSE tabsUl[j]]
    /\ tabsContents' = [q \in 1..Len(tabsContents) |->
                    IF tabsContents[q].kind = "content"
                       /\ (tabsContents[q].ins = 0 \/ clearInserted)
                    THEN [tabsContents[q] EXCEPT
                            !.active = (q = panelOf(tabsContents, tabsUl[k].href))]
                    ELSE tabsContents[q]]
    /\ UNCHANGED <<pc, caller, calls, context, groupVars, infoDl, listeners, event>>

----------------------------------------------------------------------------
(* Specifications *)

PageEntries ==
    { Entry(Str(NEWTAB_TRIGGER_NAME), Str(<<"S", "p", "e", "c", "s">>)),
      Entry(Str(<<"_", "_", "N", "e", "w", "T", "a", "b">>), Str(<<" ">>)),
      Entry(Str(<<"C", "o", "l", "o", "r">>), Str(<<"R", "e", "d">>)),
      NullEntry }

PageContexts ==
    {Context(FALSE, FALSE, Absent)}
        \cup {Context(TRUE, flag, fields) :
                flag \in BOOLEAN,
                fields \in {ArrayOf(items) : items \in SeqsUpTo(PageEntries, MaxPageLen)}
                               \cup {NonArray, Absent}}

\* A page load: any context, any combination of present and missing anchors.
Init ==
    /\ pc = "idle"
    /\ caller = "init"
    /\ calls = 0
    /\ context \in PageContexts
    /\ customFields = Absent
    /\ idx = 0
    /\ result = EmptyResult
    /\ tabs = <<>>
    /\ currentTab = 0
    /\ seenFirstTrigger = FALSE
    /\ \E hasLead \in BOOLEAN : infoDl = HostInfoDl(hasLead)
    /\ \E hasList \in BOOLEAN, hasOrphan \in BOOLEAN : tabsUl = HostTabsUl(hasList, hasOrphan)
    /\ \E hasContent \in BOOLEAN : tabsContents = HostTabsContents(hasContent)
    /\ listeners = 0
    /\ event = NoEvent

Next ==
    \/ initDynamicCustomFieldTabs
    \/ groupEnter
    \/ forEachStep
    \/ groupReturn
    \/ injectLeadingCustomFields
    \/ injectDynamicTabs
    \/ bindDynamicTabClicks
    \/ \E k \in 1..Len(tabsUl) : clickTab(k)
    \/ clickElsewhere
    \/ clickDone
    \/ \E k \in 1..Len(tabsUl), clearInserted \in BOOLEAN : hostActivate(k, clearInserted)

Spec == Init /\ [][Next]_vars

\* A call of groupCustomFieldsIntoTabs: directly with any argument, or from an
\* initDynamicCustomFieldTabs that has passed its guard on a page with all anchors.
InitGroup ==
    /\ pc = "group"
    /\ \/ /\ caller = "direct"
          /\ calls = 0
          /\ customFields \in GroupInputs
          /\ context = Context(FALSE, FALSE, Absent)
       \/ /\ caller = "init"
          /\ calls = 1
          /\ customFields \in RenderInputs
          /\ context = Context(TRUE, TRUE, customFields)
    /\ idx = 0
    /\ result = EmptyResult
    /\ tabs = <<>>
    /\ currentTab = 0
    /\ seenFirstTrigger = FALSE
    /\ infoDl = HostInfoDl(TRUE)
    /\ tabsUl = HostTabsUl(TRUE, FALSE)
    /\ tabsContents = HostTabsContents(TRUE)
    /\ listeners = 0
    /\ event = NoEvent

NextGroup ==
    \/ groupEnter
    \/ forEachStep
    \/ groupReturn
    \/ injectLeadingCustomFields
    \/ injectDynamicTabs
    \/ bindDynamicTabClicks

SpecGroup == InitGroup /\ [][NextGroup]_vars

----------------------------------------------------------------------------
(* What the properties below say about an input list, read off the list    *)
(* itself and not off the code's own classification.                       *)

\* the entry has a name that is not empty after trimming
Usable(e) == e.obj /\ e.name.t = "str" /\ Trim(e.name.s) # <<>>

\* the name, trimmed and lower-cased, is the reserved token
SentinelName(s) == ToLowerCase(Trim(s)) = <<"_", "_", "n", "e", "w", "t", "a", "b">>

Sentinel(e) == Usable(e) /\ SentinelName(e.name.s)

ValidCount(items, n) == Cardinality({k \in 1..n : Usable(items[k])})
TriggerCount(items, n) == Cardinality({k \in 1..n : Sentinel(items[k])})

RECURSIVE FieldCount(_)
FieldCount(ts) == IF ts = <<>> THEN 0 ELSE Len(Head(ts).fields) + FieldCount(Tail(ts))

RECURSIVE AllFields(_)
AllFields(ts) == IF ts = <<>> THEN <<>> ELSE Head(ts).fields \o AllFields(Tail(ts))

\* the non-trigger entries with usable names among the first n, names trimmed
\* and an absent value read as the empty string
RECURSIVE ContentEntries(_, _)
ContentEntries(items, n) ==
    IF n = 0 THEN <<>>
    ELSE LET e == items[n] IN
         ContentEntries(items, n - 1) \o
            (IF Usable(e) /\ ~Sentinel(e)
             THEN <<[name |-> Trim(e.name.s),
                     value |-> IF e.value.t \in {"null", "undef"} THEN Str(<<>>) ELSE e.value]>>
             ELSE <<>>)

\* groupCustomFieldsIntoTabs has returned its result
Returned == pc \in {"returned", "injectLeading", "injectTabs", "bind", "idle", "clicked"}

Items == customFields.items

----------------------------------------------------------------------------
(* Properties of the partition *)

\* C1: after every processed prefix of the input, and in the returned result,
\* the leading fields, the fields of all tabs and the triggers together number
\* the entries with a usable name; that is the length of the input when every
\* entry has a usable name.
C1_CountsValidAttributes ==
    /\ Len(result.leadingFields) + FieldCount(tabs) + TriggerCount(Items, idx)
          = ValidCount(Items, idx)
    /\ Returned =>
          /\ Len(result.leadingFields) + FieldCount(result.tabs)
                + TriggerCount(Items, Len(Items)) = ValidCount(Items, Len(Items))
          /\ (\A k \in 1..Len(Items) : Usable(Items[k])) =>
                Len(result.leadingFields) + FieldCount(result.tabs)
                   + TriggerCount(Items, Len(Items)) = Len(Items)

C1_Witness ==
    /\ pc = "returned"
    /\ Len(result.leadingFields) > 0
    /\ FieldCount(result.tabs) > 0
    /\ Len(Items) = MaxLen

\* C2: the leading fields followed by each tab's fields in tab order are the
\* non-trigger entries with usable names, in input order, none twice.
C2_StableOrder ==
    /\ result.leadingFields \o AllFields(tabs) = ContentEntries(Items, idx)
    /\ Returned =>
          result.leadingFields \o AllFields(result.tabs) = ContentEntries(Items, Len(Items))

C2_Witness ==
    /\ pc = "returned"
    /\ Len(result.leadingFields) > 0
    /\ Len(result.tabs) = 2
    /\ \A k \in 1..2 : Len(result.tabs[k].fields) > 0

ExampleResult ==
    [leadingFields |-> <<[name |-> <<"C", "o", "l", "o", "r">>,
                          value |-> Str(<<"R", "e", "d">>)]>>,
     tabs |-> <<[label |-> <<"S", "p", "e", "c", "s">>,
                 fields |-> <<[name |-> <<"W", "e", "i", "g", "h", "t">>,
                               value |-> Str(<<"2", "k", "g">>)]>>],
                [label |-> DefaultLabel,
                 fields |-> <<[name |-> <<"N", "o", "t", "e">>,
                               value |-> Str(<<"<", "b", ">", "h", "i", "<", "/", "b", ">">>)]>>]>>]

\* C3: the scan opens a tab for an entry exactly when the entry's name, trimmed
\* and lower-cased, is '__newtab'; the five-entry example gives the leading
\* field Color and the tabs Specs (Weight) and Details (Note).
C3_TriggerIffSentinel ==
    /\ [][(pc = "forEach" /\ idx' = idx + 1) =>
             ((Len(tabs') = Len(tabs) + 1) <=> Sentinel(Items[idx + 1]))]_vars
    /\ [](Returned /\ Items = ExampleInput =>
             /\ result.leadingFields = ExampleResult.leadingFields
             /\ Len(result.tabs) = 2
             /\ \A k \in 1..2 : /\ result.tabs[k].label = ExampleResult.tabs[k].label
                                /\ result.tabs[k].fields = ExampleResult.tabs[k].fields)

C3_Witness ==
    /\ pc = "returned"
    /\ Items = ExampleInput
    /\ Len(result.tabs) = 2

\* C4: a trigger whose value is empty, whitespace, null or absent opens a tab
\* labelled 'Details'; a trigger with any other string value opens a tab
\* labelled with that value trimmed; the label stays as it is afterwards.
C4_TabLabel ==
    /\ [][(pc = "forEach" /\ Len(tabs') = Len(tabs) + 1) =>
             LET v == Items[idx + 1].value
                 label == tabs'[Len(tabs')].label
             IN /\ (v.t \in {"null", "undef"} \/ (v.t = "str" /\ Trim(v.s) = <<>>))
                      => label = <<"D", "e", "t", "a", "i", "l", "s">>
                /\ (v.t = "str" /\ Trim(v.s) # <<>>) => label = Trim(v.s)]_vars
    /\ [][\A k \in 1..Len(tabs) :
             pc = "forEach" => tabs'[k].label = tabs[k].label]_vars
    /\ [](Returned /\ customFields.kind = "array" => result.tabs = tabs)

C4_Witness ==
    /\ pc = "returned"
    /\ Len(result.tabs) = 3
    /\ Items[1].value = Undefined
    /\ Items[2].value = Str(<<" ", "i", "n", "f", "o", " ">>)
    /\ Items[3].value = Str(<<" ">>)

\* C5: within one initialization any two different tabs have different
\* rendered identifiers, in the partition and in the inserted labels and panels.
C5_DistinctIdentifiers ==
    /\ \A j, k \in 1..Len(tabs) :
          j # k => renderedId(tabs[j].slug, j - 1) # renderedId(tabs[k].slug, k - 1)
    /\ \A j, k \in 1..Len(tabsContents) :
          (j # k /\ tabsContents[j].kind = "content" /\ tabsContents[k].kind = "content")
             => tabsContents[j].id # tabsContents[k].id
    /\ \A j, k \in 1..Len(tabsUl) :
          (j # k /\ tabsUl[j].kind = "tab" /\ tabsUl[k].kind = "tab")
             => tabsUl[j].href # tabsUl[k].href

C5_Witness ==
    /\ pc = "idle"
    /\ Len(result.tabs) = 2
    /\ result.tabs[1].slug = result.tabs[2].slug
    /\ Cardinality({q \in 1..Len(tabsContents) :
                      tabsContents[q].kind = "content" /\ tabsContents[q].ins = 1}) = 2

\* C9: no leading field and no field of a tab is a trigger entry, and no
\* inserted label/value pair shows one.
C9_NoTriggerAsContent ==
    /\ \A k \in 1..Len(result.leadingFields) : ~SentinelName(result.leadingFields[k].name)
    /\ \A t \in 1..Len(tabs) : \A k \in 1..Len(tabs[t].fields) :
          ~SentinelName(tabs[t].fields[k].name)
    /\ \A t \in 1..Len(result.tabs) : \A k \in 1..Len(result.tabs[t].fields) :
          ~SentinelName(result.tabs[t].fields[k].name)
    /\ \A k \in 1..Len(infoDl) :
          infoDl[k].kind = "dt" => ~SentinelName(SubSeq(infoDl[k].text, 1, Len(infoDl[k].text) - 1))
    /\ \A q \in 1..Len(tabsContents) :
          tabsContents[q].kind = "content" =>
             \A k \in 1..Len(tabsContents[q].dl) :
                tabsContents[q].dl[k].kind = "dt" =>
                   ~SentinelName(SubSeq(tabsContents[q].dl[k].text, 1,
                                        Len(tabsContents[q].dl[k].text) - 1))

C9_Witness ==
    /\ pc = "idle"
    /\ Len(result.tabs) = 2
    /\ Len(result.leadingFields) = 1
    /\ \E q \in 1..Len(tabsContents) :
          tabsContents[q].kind = "content" /\ Len(tabsContents[q].dl) = 2

----------------------------------------------------------------------------
(* Properties of the page *)

\* a node inserted by initDynamicCustomFieldTabs
Inserted(node) == node.kind # "anchor" /\ node.ins > 0

NoInsertedNodes ==
    /\ \A k \in 1..Len(infoDl) : ~Inserted(infoDl[k])
    /\ \A k \in 1..Len(tabsUl) : ~Inserted(tabsUl[k])
    /\ \A k \in 1..Len(tabsContents) : ~Inserted(tabsContents[k])

\* the context is absent, or its flag is falsy, or its list is absent or empty
Inactive(ctx) ==
    \/ ~ctx.present
    \/ ~ctx.flag
    \/ ctx.fields.kind = "undef"
    \/ (ctx.fields.kind = "array" /\ Len(ctx.fields.items) = 0)

\* a step of a call of initDynamicCustomFieldTabs
CallStep ==
    calls' # calls \/ pc \in {"group", "forEach", "injectLeading", "injectTabs", "bind"}

\* C6: with the context absent, the flag falsy or the list absent or empty, no
\* call inserts a node or changes the activation state.
C6_InactiveLeavesDocument ==
    /\ [](Inactive(context) => NoInsertedNodes)
    /\ [][(Inactive(context) /\ CallStep) =>
             UNCHANGED <<infoDl, tabsUl, tabsContents>>]_vars

C6_Witness ==
    /\ pc = "idle"
    /\ calls = 2
    /\ context.present
    /\ ~context.flag
    /\ context.fields.kind = "array"
    /\ Len(context.fields.items) = 2
    /\ event.where = "tabs"

\* C7: right after a click on an inserted tab label whose panel exists, the
\* clicked label is the only active label of the tab list and the panel it
\* references is the only active panel among the sibling panels.
C7_ClickActivatesExactlyOne ==
    (/\ pc = "clicked"
     /\ event.where = "tabs"
     /\ Inserted(tabsUl[event.k])
     /\ panelOf(tabsContents, tabsUl[event.k].href) # 0)
    => /\ \A j \in 1..Len(tabsUl) :
             tabsUl[j].kind = "tab" => (tabsUl[j].active <=> j = event.k)
       /\ \A q \in 1..Len(tabsContents) :
             tabsContents[q].kind = "content" =>
                (tabsContents[q].active <=> q = panelOf(tabsContents, tabsUl[event.k].href))

C7_Witness ==
    /\ pc = "clicked"
    /\ event.where = "tabs"
    /\ Inserted(tabsUl[event.k])
    /\ event.prevented
    /\ Cardinality({j \in 1..Len(tabsUl) : Inserted(tabsUl[j])}) = 2

\* C8: a click on a link that is not a dynamic tab label, or on a label whose
\* panel is not in the document, changes no label's and no panel's activation.
C8_OtherClicksChangeNothing ==
    [][(/\ pc = "idle"
        /\ pc' = "clicked"
        /\ \/ event'.where = "elsewhere"
           \/ ~StartsWith(tabsUl[event'.k].href,
                          <<"#", "t", "a", "b", "-", "d", "y", "n", "a", "m", "i", "c", "-">>)
           \/ \A q \in 1..Len(tabsContents) :
                 tabsContents[q].kind = "content" =>
                    <<"#">> \o tabsContents[q].id # tabsUl[event'.k].href)
       => UNCHANGED <<tabsUl, tabsContents>>]_vars

C8_Witness ==
    /\ pc = "clicked"
    /\ event.where = "tabs"
    /\ tabsUl[event.k].href = <<"#">> \o OrphanId
    /\ event.ran > 0
    /\ ~event.found

\* C10: initDynamicCustomFieldTabs and groupCustomFieldsIntoTabs never throw.
C10_NeverThrows == pc # "threw"


\* C11: when the tab-label anchor or the tab-content anchor is missing, no
\* label control and no panel is inserted, not even beside the anchor that
\* exists; the leading pairs are inserted before the leading-fields anchor
\* whatever the tab anchors are.
C11_MissingTabAnchorSkipsTabs ==
    /\ []((anchorOf(tabsUl) = 0 \/ anchorOf(tabsContents) = 0) =>
             /\ \A k \in 1..Len(tabsUl) : ~Inserted(tabsUl[k])
             /\ \A k \in 1..Len(tabsContents) : ~Inserted(tabsContents[k]))
    /\ [][pc = "injectLeading" =>
             IF Len(result.leadingFields) > 0
                /\ \E k \in 1..Len(infoDl) : infoDl[k].kind = "anchor"
             THEN Len(infoDl') = Len(infoDl) + 2 * Len(result.leadingFields)
             ELSE infoDl' = infoDl]_vars

C11_Witness ==
    /\ pc = "idle"
    /\ calls = 1
    /\ Len(result.tabs) > 0
    /\ anchorOf(tabsUl) # 0
    /\ anchorOf(tabsContents) = 0
    /\ \E k \in 1..Len(infoDl) : Inserted(infoDl[k])

\* C12: a second run of initDynamicCustomFieldTabs with the same context
\* leaves the document as the first run left it.
C12_SecondRunChangesNothing ==
    [][(calls = 2 /\ CallStep) => UNCHANGED <<infoDl, tabsUl, tabsContents>>]_vars

----------------------------------------------------------------------------
(* Properties of the scan *)

\* the entry as the partition holds it: name trimmed, absent value as ''
FieldOf(e) ==
    [name |-> Trim(e.name.s),
     value |-> IF e.value.t \in {"null", "undef"} THEN Str(<<>>) ELSE e.value]

\* C13: a non-trigger entry with a usable name goes to leadingFields exactly
\* when no trigger precedes it; after the first trigger leadingFields never
\* changes, and each later non-trigger entry is appended to the last tab, the
\* earlier tabs staying as they are.
C13_LeadingUntilFirstTrigger ==
    /\ [][(pc = "forEach" /\ idx' = idx + 1
              /\ Usable(Items[idx + 1]) /\ ~Sentinel(Items[idx + 1])) =>
             IF TriggerCount(Items, idx) = 0
             THEN /\ result'.leadingFields
                        = Append(result.leadingFields, FieldOf(Items[idx + 1]))
                  /\ tabs' = tabs
             ELSE /\ result'.leadingFields = result.leadingFields
                  /\ Len(tabs') = Len(tabs)
                  /\ tabs'[Len(tabs)].fields
                        = Append(tabs[Len(tabs)].fields, FieldOf(Items[idx + 1]))
                  /\ \A k \in 1..(Len(tabs) - 1) : tabs'[k] = tabs[k]]_vars
    /\ [][TriggerCount(Items, idx) > 0 =>
             result'.leadingFields = result.leadingFields]_vars
    /\ [][(pc = "forEach" /\ result'.leadingFields # result.leadingFields) =>
             /\ idx' = idx + 1
             /\ Usable(Items[idx + 1])
             /\ ~Sentinel(Items[idx + 1])
             /\ TriggerCount(Items, idx) = 0]_vars

C13_Witness ==
    /\ pc = "returned"
    /\ Len(Items) = 3
    /\ Len(result.tabs) = 2
    /\ Len(result.tabs[1].fields) = 0
    /\ Len(result.tabs[2].fields) = 1

\* positions of the trigger entries among the first n entries, ascending
RECURSIVE TriggerPositions(_, _)
TriggerPositions(items, n) ==
    IF n = 0 THEN <<>>
    ELSE TriggerPositions(items, n - 1) \o (IF Sentinel(items[n]) THEN <<n>> ELSE <<>>)

\* the non-trigger entries with usable names at the positions a+1 .. b-1
ContentBetween(items, a, b) ==
    SubSeq(ContentEntries(items, b - 1),
           Len(ContentEntries(items, a)) + 1,
           Len(ContentEntries(items, b - 1)))

\* the label a trigger's value asks for
LabelOf(v) ==
    IF v.t \in {"null", "undef"} \/ (v.t = "str" /\ Trim(v.s) = <<>>)
    THEN <<"D", "e", "t", "a", "i", "l", "s">>
    ELSE IF v.t = "str" THEN Trim(v.s) ELSE v.s

\* C14: there is one tab per trigger entry, in source order: the k-th tab has
\* the label of the k-th trigger and the fields between it and the next
\* trigger, so none for consecutive or trailing triggers, and there is no tab
\* when there is no trigger.
C14_OneTabPerTrigger ==
    LET pos == TriggerPositions(Items, idx) IN
    /\ Len(tabs) = Len(pos)
    /\ \A k \in 1..Len(pos) :
          /\ tabs[k].label = LabelOf(Items[pos[k]].value)
          /\ tabs[k].fields
                = ContentBetween(Items, pos[k],
                                 IF k < Len(pos) THEN pos[k + 1] ELSE idx + 1)
    /\ (Returned /\ customFields.kind = "array") =>
          /\ idx = Len(Items)
          /\ result.tabs = tabs

C14_Witness ==
    /\ pc = "returned"
    /\ Len(Items) = 3
    /\ Len(result.tabs) = 3
    /\ \A k \in 1..3 : result.tabs[k].fields = <<>>


\* the slug the label gives: lower-cased, whitespace runs as one hyphen, the
\* characters outside [a-z0-9-] removed
SlugOfLabel(label) == StripNonSlugChars(ReplaceWhiteSpaceRuns(ToLowerCase(label)))

\* C15: every tab's slug is derived from the tab's label, and is
\* 'tab-custom-{index}' only when that derivation is empty; it is never empty.
C15_SlugFromLabel ==
    \A k \in 1..Len(tabs) :
       /\ tabs[k].slug # <<>>
       /\ tabs[k].slug = IF SlugOfLabel(tabs[k].label) # <<>>
                         THEN SlugOfLabel(tabs[k].label)
                         ELSE <<"t", "a", "b", "-", "c", "u", "s", "t", "o", "m", "-">>
                                 \o Dec(k - 1)

----------------------------------------------------------------------------
(* Properties of the listener and of the inserted nodes *)

\* the context has the activation flag and an attribute list
Active(ctx) == ctx.present /\ ctx.flag /\ ctx.fields.kind # "undef"

\* C16 as stated: every initialization with the flag and a list of entries
\* registers exactly one listener.
C16_OneListenerPerInitialization ==
    (pc \in {"idle", "clicked"} /\ Active(context) /\ Len(context.fields.items) > 0)
       => listeners = calls

\* C16, amended: an initialization registers exactly one listener when its
\* partition has a tab, however many tabs there are and whether or not the tab
\* anchors exist, and none when the partition has no tab.
C16_OneListenerWhenTabs ==
    /\ []((pc \in {"idle", "clicked"} /\ Active(context)) =>
             listeners = IF TriggerCount(context.fields.items,
                                         Len(context.fields.items)) > 0
                         THEN calls ELSE 0)
    /\ [][listeners' # listeners =>
             (pc = "bind" /\ Len(result.tabs) > 0 /\ listeners' = listeners + 1)]_vars
    /\ [][(pc = "injectLeading" /\ pc' = "idle") => Len(result.tabs) = 0]_vars

C16_Witness ==
    /\ pc = "idle"
    /\ calls = 1
    /\ listeners = 1
    /\ Len(result.tabs) = 2
    /\ anchorOf(tabsUl) = 0

\* C17: whenever the click handler runs, default navigation is prevented, also
\* when the panel is not found.
C17_AlwaysPreventsDefault ==
    (pc = "clicked" /\ event.ran > 0) => event.prevented

\* position of the anchor among the children, 0 when there is none
AnchorAt(children) ==
    IF \E k \in 1..Len(children) : children[k].kind = "anchor"
    THEN CHOOSE k \in 1..Len(children) : children[k].kind = "anchor"
    ELSE 0

\* new is old with n nodes put directly before the anchor and nothing else moved
BlockBefore(old, new, n) ==
    /\ AnchorAt(old) # 0
    /\ Len(new) = Len(old) + n
    /\ SubSeq(new, 1, AnchorAt(old) - 1) = SubSeq(old, 1, AnchorAt(old) - 1)
    /\ SubSeq(new, AnchorAt(old) + n, Len(new)) = SubSeq(old, AnchorAt(old), Len(old))

\* block holds one label/value pair per field, in field order
PairsOf(block, fields) ==
    /\ Len(block) = 2 * Len(fields)
    /\ \A k \in 1..Len(fields) :
          /\ block[2 * k - 1].kind = "dt"
          /\ block[2 * k - 1].text = fields[k].name \o <<":">>
          /\ block[2 * k].kind = "dd"
          /\ block[2 * k].html = fields[k].value.s

IdOf(ts, k) == TabDynamicPrefix \o ts[k].slug \o <<"-">> \o Dec(k - 1)

\* block holds one label control per tab, in tab order
LabelsOf(block, ts) ==
    /\ Len(block) = Len(ts)
    /\ \A k \in 1..Len(ts) :
          /\ block[k].kind = "tab"
          /\ block[k].href = <<"#">> \o IdOf(ts, k)

\* block holds one panel per tab, in tab order, its pairs in field order
PanelsOf(block, ts) ==
    /\ Len(block) = Len(ts)
    /\ \A k \in 1..Len(ts) :
          /\ block[k].kind = "content"
          /\ block[k].id = IdOf(ts, k)
          /\ PairsOf(block[k].dl, ts[k].fields)

\* C18: each insertion of a call puts its nodes as one block directly before
\* the anchor, in source order; the anchor and the nodes already there stay
\* where they were, and no other step of a call touches the three containers.
C18_BlockBeforeAnchor ==
    /\ [][pc = "injectLeading" =>
             IF Len(result.leadingFields) > 0 /\ AnchorAt(infoDl) # 0
             THEN /\ BlockBefore(infoDl, infoDl', 2 * Len(result.leadingFields))
                  /\ PairsOf(SubSeq(infoDl', AnchorAt(infoDl),
                                    AnchorAt(infoDl) + 2 * Len(result.leadingFields) - 1),
                             result.leadingFields)
             ELSE infoDl' = infoDl]_vars
    /\ [][pc = "injectTabs" =>
             IF AnchorAt(tabsUl) # 0 /\ AnchorAt(tabsContents) # 0
             THEN /\ BlockBefore(tabsUl, tabsUl', Len(result.tabs))
                  /\ LabelsOf(SubSeq(tabsUl', AnchorAt(tabsUl),
                                     AnchorAt(tabsUl) + Len(result.tabs) - 1), result.tabs)
                  /\ BlockBefore(tabsContents, tabsContents', Len(result.tabs))
                  /\ PanelsOf(SubSeq(tabsContents', AnchorAt(tabsContents),
                                     AnchorAt(tabsContents) + Len(result.tabs) - 1),
                              result.tabs)
             ELSE tabsUl' = tabsUl /\ tabsContents' = tabsContents]_vars
    /\ [][(CallStep /\ pc # "injectLeading") => infoDl' = infoDl]_vars
    /\ [][(CallStep /\ pc # "injectTabs") =>
             (tabsUl' = tabsUl /\ tabsContents' = tabsContents)]_vars

C18_Witness ==
    /\ pc = "idle"
    /\ calls = 1
    /\ \E k \in 1..Len(infoDl) : Inserted(infoDl[k])
    /\ Cardinality({k \in 1..Len(tabsUl) : Inserted(tabsUl[k])}) = 1
    /\ \E k \in 1..Len(tabsContents) :
          Inserted(tabsContents[k]) /\ Len(tabsContents[k].dl) = 0

InsertedNodes(children) == SelectSeq(children, Inserted)

\* the k-th inserted label and the k-th inserted panel are built from the k-th tab
BuiltFromTabs(n) ==
    LET labels == InsertedNodes(tabsUl)
        panels == InsertedNodes(tabsContents)
    IN /\ Len(labels) = n
       /\ Len(panels) = n
       /\ \A k \in 1..n :
             /\ labels[k].href = <<"#">> \o IdOf(result.tabs, k)
             /\ panels[k].id = IdOf(result.tabs, k)
             /\ PairsOf(panels[k].dl, result.tabs[k].fields)
             /\ Cardinality({q \in 1..Len(panels) :
                               <<"#">> \o panels[q].id = labels[k].href}) = 1

\* C19 as stated: once a single initialization has registered the listener,
\* there are as many inserted labels and inserted panels as tabs.
C19_LabelsPanelsTabs ==
    (calls = 1 /\ listeners >= 1) => BuiltFromTabs(Len(result.tabs))

\* C19, amended: once a single initialization has registered the listener,
\* the inserted labels and the inserted panels number the tabs when both tab
\* anchors exist and zero otherwise; each inserted label names exactly one
\* inserted panel, the one built from the same tab; the listener is registered
\* only after both batches, and no inserted label is ever without its panel.
C19_LabelsMatchPanels ==
    /\ []((calls = 1 /\ listeners >= 1) =>
             BuiltFromTabs(IF AnchorAt(tabsUl) # 0 /\ AnchorAt(tabsContents) # 0
                           THEN Len(result.tabs) ELSE 0))
    /\ []((calls = 1 /\ pc \in {"group", "forEach", "injectLeading", "injectTabs"}) =>
             listeners = 0)
    /\ [](\A k \in 1..Len(tabsUl) :
             Inserted(tabsUl[k]) =>
                \E q \in 1..Len(tabsContents) :
                   /\ Inserted(tabsContents[q])
                   /\ <<"#">> \o tabsContents[q].id = tabsUl[k].href)

C19_Witness ==
    /\ pc = "clicked"
    /\ calls = 1
    /\ listeners = 1
    /\ event.found
    /\ Len(InsertedNodes(tabsUl)) = 2
    /\ Len(InsertedNodes(tabsContents)) = 2

====
